---- MODULE Spec2Model ----
(***************************************************************************)
(* Model of src/timesfm/patched_decoder.py: the forward call of            *)
(* PatchedTimeSeriesDecoder (patching, masked statistics, forward/reverse  *)
(* normalisation, positional alignment, output projection) and its         *)
(* autoregressive decode loop.                                             *)
(*                                                                         *)
(* Arrays are functions over 0..n-1, as in the source (0-based indices).   *)
(* Real numbers are fixed-point: an integer v stands for v / SCALE, every  *)
(* division rounds down.  A value that may hold the pad sentinel is a      *)
(* record [pad, fin] standing for (pad * PAD_VAL + fin) / SCALE, so that   *)
(* the sentinel and its multiples are exact without wide integers.         *)
(***************************************************************************)
EXTENDS Integers, Sequences, FiniteSets, TLC

\* ------------------------------------------------------------------ bounds
MaxPatches == 4    \* most patches in the series of a direct forward call
MaxC == 4          \* longest context of a decode call
MaxH == 5          \* largest requested horizon of a decode call
MaxMaxLen == 4     \* largest max_len of a decode call
MaxPatchLen == 3   \* largest configured patch_len
MaxHorizonLen == 2 \* largest configured (native) horizon_len
NumRows == 2       \* batch size B
NumQuantiles == 2  \* len(self.quantiles)
SCALE == 100       \* fixed-point resolution: 1.0 is SCALE

\* ------------------------------------------------------- program constants
PAD_VAL == 1123581321
\* _TOLERANCE = 1e-7, kept as its inverse
_TOLERANCE_INV == 10000000

\* ----------------------------------------------------------------- arrays
Min2(a, b) == IF a <= b THEN a ELSE b
Max2(a, b) == IF a >= b THEN a ELSE b
Abs(x) == IF x < 0 THEN -x ELSE x

ALen(a) == Cardinality(DOMAIN a)
Empty == [i \in {} |-> 0]
\* the same array, tabulated once instead of recomputed at every use
Tabulated(a) == a @@ Empty
Tab2(a) == Tabulated([i \in DOMAIN a |-> Tabulated(a[i])])
Tab3(a) == Tabulated([i \in DOMAIN a |-> Tab2(a[i])])

\* Python's a[start:stop] for integer start, stop (negative counts from the end)
PyIndex(i, n) == IF i < 0 THEN Max2(i + n, 0) ELSE Min2(i, n)
PySlice(a, start, stop) ==
    LET n  == ALen(a)
        lo == PyIndex(start, n)
        hi == PyIndex(stop, n)
    IN  [i \in 0 .. (hi - lo - 1) |-> a[lo + i]]
\* Python's a[-k:]; -0 is 0, so a[-0:] is the whole of a
PyTail(a, k) == PySlice(a, -k, ALen(a))

Concatenate(a, b) ==
    [i \in 0 .. (ALen(a) + ALen(b) - 1) |->
        IF i < ALen(a) THEN a[i] ELSE b[i - ALen(a)]]

RECURSIVE SumTo(_, _)
SumTo(a, n) == IF n = 0 THEN 0 ELSE a[n - 1] + SumTo(a, n - 1)
ArraySum(a) == SumTo(a, ALen(a))

RECURSIVE MinTo(_, _)
MinTo(a, n) == IF n = 1 THEN a[0] ELSE Min2(a[n - 1], MinTo(a, n - 1))
ArrayMin(a) == MinTo(a, ALen(a))

\* jnp.argmax / jnp.argmin: the first index holding the extreme value
ArgMax(a) ==
    CHOOSE i \in DOMAIN a :
        /\ \A j \in DOMAIN a : a[j] <= a[i]
        /\ \A j \in DOMAIN a : j < i => a[j] < a[i]
ArgMin(a) ==
    CHOOSE i \in DOMAIN a :
        /\ \A j \in DOMAIN a : a[j] >= a[i]
        /\ \A j \in DOMAIN a : j < i => a[j] > a[i]

\* ---------------------------------------------------------------- numbers
Num(v) == [pad |-> 0, fin |-> v]
PadNum == [pad |-> SCALE, fin |-> 0]          \* the value PAD_VAL
NumAdd(a, m) == [pad |-> a.pad, fin |-> a.fin + m]
NumMul(a, s) == [pad |-> (a.pad * s) \div SCALE, fin |-> (a.fin * s) \div SCALE]
\* float division: x / 0 is inf or nan, never an exception; the placeholder
\* below stands for it, and the divisor is what the properties look at
NumDiv(a, s) ==
    IF s = 0 THEN Num(0)
    ELSE [pad |-> (a.pad * SCALE) \div s, fin |-> (a.fin * SCALE) \div s]
NumMask(a, m) == [pad |-> a.pad * m, fin |-> a.fin * m]
FloatDiv(a, n) == IF n = 0 THEN 0 ELSE a \div n

\* x < _TOLERANCE for a fixed-point x: x / SCALE < 1 / _TOLERANCE_INV
LessThanTolerance(x) == x <= (SCALE - 1) \div _TOLERANCE_INV
\* jnp.abs(x - PAD_VAL) < _TOLERANCE
IsPadVal(x) == x.pad = SCALE /\ LessThanTolerance(Abs(x.fin))

RECURSIVE SqrtSearch(_, _, _)
SqrtSearch(x, lo, hi) ==
    IF lo >= hi THEN lo
    ELSE LET mid == (lo + hi + 1) \div 2
         IN  IF mid * mid <= x THEN SqrtSearch(x, mid, hi)
             ELSE SqrtSearch(x, lo, mid - 1)
\* jnp.sqrt of a fixed-point x >= 0: sqrt(x / SCALE) * SCALE, rounded down
FloatSqrt(x) == SqrtSearch(x * SCALE, 0, Min2(x * SCALE, 46340))

\* ------------------------------------------------------ _shift_padded_seq
\* mutant: the row is rotated the other way
shift_row_left(seq_row, shift) ==
    [i \in DOMAIN seq_row |-> seq_row[(i + shift) % ALen(seq_row)]]

\* shift_row of the scan: one row, shifted by its first_zero_idx
shift_row(seq_row, shift) ==
    [i \in DOMAIN seq_row |-> seq_row[(i - shift) % ALen(seq_row)]]

\* mask: [b][n] patch-level padding, seq: [b][n] embedding vectors
_shift_padded_seq(mask, seq) ==
    [b \in DOMAIN seq |-> Tabulated(shift_row(seq[b], ArgMin(mask[b])))]

\* ------------------------------------------------------- _masked_mean_std
\* pad_sum = jnp.sum(1 - padding, axis=2)
pad_sum_of(padding) ==
    [b \in DOMAIN padding |-> [n \in DOMAIN padding[b] |->
        ArraySum([p \in DOMAIN padding[b][n] |-> 1 - padding[b][n][p]])]]

\* mutant: "more than three" non-padded values
_get_patch_index_gt(arr) ==
    [b \in DOMAIN arr |->
        LET ge == [n \in DOMAIN arr[b] |-> IF arr[b][n] > 3 THEN 1 ELSE 0]
        IN  IF ArraySum(ge) = 0 THEN ALen(arr[b]) - 1 ELSE ArgMax(ge)]

_get_patch_index(arr) ==
    [b \in DOMAIN arr |->
        LET ge == [n \in DOMAIN arr[b] |-> IF arr[b][n] >= 3 THEN 1 ELSE 0]
        IN  IF ArraySum(ge) = 0 THEN ALen(arr[b]) - 1 ELSE ArgMax(ge)]

\* the statistics of one row: arr is its selected patch, pad that patch's
\* padding.  Every sentinel position is padded by the caller
\* (_preprocess_input), so arr * mask has no PAD_VAL part and the sums are
\* plain fixed-point integers.
selected_patch_stats(arr, pad) ==
    LET mask == [p \in DOMAIN pad |-> 1 - pad[p]]
        count == ArraySum(mask)
        num_valid_elements == IF count = 0 THEN 1 ELSE count
        masked == [p \in DOMAIN arr |-> NumMask(arr[p], mask[p]).fin]
        masked_sum == ArraySum(masked)
        masked_squared_sum ==
            ArraySum([p \in DOMAIN masked |-> (masked[p] * masked[p]) \div SCALE])
        masked_mean == FloatDiv(masked_sum, num_valid_elements)
        var == FloatDiv(masked_squared_sum, num_valid_elements)
                 - (masked_mean * masked_mean) \div SCALE
        masked_var == IF var < 0 THEN 0 ELSE var
    IN  [num_valid_elements |-> num_valid_elements,
         masked_mean |-> masked_mean,
         masked_std |-> FloatSqrt(masked_var)]

\* arr = inputs[bidxs, patch_indices, :], pad = padding[bidxs, patch_indices, :]
masked_mean_std_at(inputs, padding, patch_indices) ==
    LET row(b) == selected_patch_stats(inputs[b][patch_indices[b]],
                                       padding[b][patch_indices[b]])
    IN  [patch_indices |-> patch_indices,
         num_valid_elements |->
             Tabulated([b \in DOMAIN inputs |-> row(b).num_valid_elements]),
         masked_mean |-> Tabulated([b \in DOMAIN inputs |-> row(b).masked_mean]),
         masked_std |-> Tabulated([b \in DOMAIN inputs |-> row(b).masked_std])]

\* inputs: [b][n][p] numbers, padding: [b][n][p] in {0, 1}
_masked_mean_std(inputs, padding) ==
    masked_mean_std_at(inputs, padding,
                       Tabulated(_get_patch_index(pad_sum_of(padding))))

\* ----------------------------------------------------- _forward_transform
\* mutant: the standard deviation is used as computed
sigma_floor_missing(sigma) == Tabulated(sigma)

\* sigma = jnp.where(sigma < _TOLERANCE, 1.0, sigma)
sigma_floor(sigma) ==
    Tabulated([b \in DOMAIN sigma |->
        IF LessThanTolerance(sigma[b]) THEN SCALE ELSE sigma[b]])

\* (inputs - mu) / sigma, and PAD_VAL where the input is PAD_VAL
normalize(inputs, mu, sigma) ==
    [b \in DOMAIN inputs |-> [n \in DOMAIN inputs[b] |->
        [p \in DOMAIN inputs[b][n] |->
            IF IsPadVal(inputs[b][n][p]) THEN PadNum
            ELSE NumDiv(NumAdd(inputs[b][n][p], -mu[b]), sigma[b])]]]

forward_transform_with(inputs, ms, sigma) ==
    [outputs |-> Tab3(normalize(inputs, ms.masked_mean, sigma)),
     mu |-> ms.masked_mean, sigma |-> sigma,
     \* kept for inspection: what _masked_mean_std returned
     masked |-> ms]

forward_transform_stats(inputs, ms) ==
    forward_transform_with(inputs, ms, sigma_floor(ms.masked_std))

\* returns outputs and (mu, sigma)
_forward_transform(inputs, patched_pads) ==
    forward_transform_stats(inputs, _masked_mean_std(inputs, patched_pads))

\* ----------------------------------------------------- _reverse_transform
\* mutant: the mean is not added back
_reverse_transform_no_mean(outputs, stats) ==
    [b \in DOMAIN outputs |-> [n \in DOMAIN outputs[b] |->
        [h \in DOMAIN outputs[b][n] |-> [q \in DOMAIN outputs[b][n][h] |->
            NumMul(outputs[b][n][h][q], stats.sigma[b])]]]]

\* outputs: [b][n][h][q]
_reverse_transform(outputs, stats) ==
    [b \in DOMAIN outputs |-> [n \in DOMAIN outputs[b] |->
        [h \in DOMAIN outputs[b][n] |-> [q \in DOMAIN outputs[b][n][h] |->
            NumAdd(NumMul(outputs[b][n][h][q], stats.sigma[b]), stats.mu[b])]]]]

\* ------------------------------------------------------------------ state
VARIABLES
    self,               \* the layer: patch_len, horizon_len, do_eval
    call,               \* "forward" (__call__) or "decode"
    inputs,             \* the NestedMap: input_ts [b][t], input_padding [b][t]
    horizon_len,        \* decode's argument
    output_patch_len,   \* decode's argument, 0 for None, then as resolved
    max_len,            \* decode's argument
    pc,                 \* "start", "loop", "done", "error"
    raised,             \* "none", or what the call raised
    final_out,          \* decode: the growing series [b][t]
    full_outputs,       \* decode: the list of retained chunks [k][b][h][q]
    num_decode_patches, \* decode: the loop's range
    step,               \* decode: iterations completed
    model_input,        \* decode: the NestedMap of the latest forward call
    fwd_calls,          \* number of forward calls issued
    fprop,              \* what the latest forward call returned
    result              \* decode's returned pair

vars == <<self, call, inputs, horizon_len, output_patch_len, max_len, pc, raised,
          final_out, full_outputs, num_decode_patches, step, model_input,
          fwd_calls, fprop, result>>

num_outputs == NumQuantiles + 1

\* ------------------------------------------------------ external layers
\* einshape "b(np)->bnp": raises unless p divides the length
\* mutant: a length that p does not divide is cut down to whole patches
einshape_fits_truncating(x, p) == \A b \in DOMAIN x : ALen(x[b]) >= p
einshape_fits(x, p) == \A b \in DOMAIN x : ALen(x[b]) % p = 0
einshape_bnp(x, p) ==
    [b \in DOMAIN x |-> [n \in 0 .. (ALen(x[b]) \div p - 1) |->
        [i \in 0 .. (p - 1) |-> x[b][n * p + i]]]]
\* einshape "bn(hq)->bnhq"
einshape_bnhq(x, q, h) ==
    [b \in DOMAIN x |-> [n \in DOMAIN x[b] |->
        [i \in 0 .. (h - 1) |-> [j \in 0 .. (q - 1) |-> x[b][n][i * q + j]]]]]
\* position_emb(seq_length): one row of seq_length vectors; vector j is named j
position_emb_layer(seq_length) == [r \in {0} |-> [j \in 0 .. (seq_length - 1) |-> j]]
\* the transformer stack and the horizon projection are external and fixed:
\* a token per patch, and a flat vector of horizon_len * num_outputs values
\* per token (normalised scale), distinct across the flat index
stacked_transformer_layer(minput, patched_padding) ==
    [b \in DOMAIN minput |-> [n \in DOMAIN minput[b] |->
        minput[b][n].pos + patched_padding[b][n]]]
horizon_ff_layer(model_output) ==
    [b \in DOMAIN model_output |-> [n \in DOMAIN model_output[b] |->
        [f \in 0 .. (self.horizon_len * num_outputs - 1) |->
            Num(10 * f - 40 + 5 * (model_output[b][n] % 3))]]]

\* ------------------------------------------------------ _preprocess_input
\* jnp.where(jnp.abs(input_ts - PAD_VAL) < _TOLERANCE, 1, input_padding)
sentinel_padding(input_ts, input_padding) ==
    [b \in DOMAIN input_ts |-> [t \in DOMAIN input_ts[b] |->
        IF IsPadVal(input_ts[b][t]) THEN 1 ELSE input_padding[b][t]]]

\* patched_inputs * (1.0 - patched_pads)
zero_padded(patched_inputs, patched_pads) ==
    [b \in DOMAIN patched_inputs |-> [n \in DOMAIN patched_inputs[b] |->
        [p \in DOMAIN patched_inputs[b][n] |->
            NumMask(patched_inputs[b][n][p], 1 - patched_pads[b][n][p])]]]

\* patched_padding = jnp.min(patched_pads, axis=-1)
patch_level_padding(patched_pads) ==
    [b \in DOMAIN patched_pads |-> [n \in DOMAIN patched_pads[b] |->
        ArrayMin(patched_pads[b][n])]]

\* the positional embedding as added to model_input (pos_emb is None)
aligned_position_emb(patched_padding, position_emb) ==
    IF self.do_eval
    THEN _shift_padded_seq(patched_padding,
            IF ALen(position_emb) # ALen(patched_padding)
            THEN [b \in DOMAIN patched_padding |-> position_emb[0]]
            ELSE position_emb)
    ELSE position_emb

\* model_input += position_emb (broadcast over the batch when it has one row);
\* the projected patch is external, the embedding it carries is kept
add_position_emb(B, N, position_emb) ==
    [b \in B |-> [n \in 0 .. (N - 1) |->
        [pos |-> position_emb[IF ALen(position_emb) = 1 THEN 0 ELSE b][n]]]]

preprocess_transformed(patched_inputs, patched_pads, ft, patched_padding) ==
    [ok |-> TRUE,
     model_input |->
         Tab2(add_position_emb(DOMAIN patched_inputs, ALen(patched_inputs[0]),
                Tabulated(aligned_position_emb(patched_padding,
                    position_emb_layer(ALen(patched_inputs[0])))))),
     patched_padding |-> patched_padding,
     stats |-> [mu |-> ft.mu, sigma |-> ft.sigma],
     patched_inputs |-> zero_padded(ft.outputs, patched_pads),
     \* kept for inspection: the patches, their padding, the transform
     raw_patches |-> patched_inputs,
     patched_pads |-> patched_pads,
     transformed |-> ft.outputs,
     masked |-> ft.masked]

preprocess_patched(patched_inputs, patched_pads) ==
    preprocess_transformed(patched_inputs, patched_pads,
                           _forward_transform(patched_inputs, patched_pads),
                           Tab2(patch_level_padding(patched_pads)))

_preprocess_input(input_ts, input_padding) ==
    IF ~ einshape_fits(input_ts, self.patch_len) THEN [ok |-> FALSE]
    ELSE preprocess_patched(
            Tab3(einshape_bnp(input_ts, self.patch_len)),
            Tab3(einshape_bnp(sentinel_padding(input_ts, input_padding),
                              self.patch_len)))

\* ----------------------------------------------------- _postprocess_output
_postprocess_output(model_output, nout, stats) ==
    _reverse_transform(
        einshape_bnhq(horizon_ff_layer(model_output), nout, self.horizon_len),
        stats)

\* ---------------------------------------------------------------- __call__
call_preprocessed(pre) ==
    IF ~ pre.ok THEN [ok |-> FALSE]
    ELSE [ok |-> TRUE,
          output_ts |-> _postprocess_output(
              Tab2(stacked_transformer_layer(pre.model_input, pre.patched_padding)),
              num_outputs, pre.stats),
          stats |-> pre.stats,
          pre |-> pre]

__call__(minputs) ==
    call_preprocessed(_preprocess_input(minputs.input_ts, minputs.input_padding))

\* ------------------------------------------------------------------ decode
inp_time_len == ALen(inputs.input_ts[0])
paddings == inputs.input_padding

\* mutant: the padding is not cut to the current length
current_padding_uncut(pads, fo) == pads

\* current_padding = paddings[:, 0 : final_out.shape[1]]
current_padding(pads, fo) ==
    [b \in DOMAIN pads |-> PySlice(pads[b], 0, ALen(fo[b]))]

\* the NestedMap of one iteration (freq is not modelled)
decode_model_input(fo, pads, ml) ==
    LET cp == current_padding(pads, fo)
    IN  [input_ts |-> [b \in DOMAIN fo |-> PyTail(fo[b], ml)],
         input_padding |-> [b \in DOMAIN cp |-> PyTail(cp[b], ml)]]

\* fprop_outputs[:, -1, :output_patch_len, :]
last_patch_chunk(fprop_outputs, opl) ==
    [b \in DOMAIN fprop_outputs |->
        PySlice(fprop_outputs[b][ALen(fprop_outputs[b]) - 1], 0, opl)]

\* mutant: the whole native horizon is appended, fprop_outputs[:, -1, :, 0]
new_ts_whole_horizon(fprop_outputs, opl) ==
    LET chunk == last_patch_chunk(fprop_outputs, self.horizon_len)
    IN  [b \in DOMAIN chunk |-> [h \in DOMAIN chunk[b] |-> chunk[b][h][0]]]

\* mutant: the first quantile is fed back, fprop_outputs[:, -1, :opl, 1]
new_ts_first_quantile(fprop_outputs, opl) ==
    LET chunk == last_patch_chunk(fprop_outputs, opl)
    IN  [b \in DOMAIN chunk |-> [h \in DOMAIN chunk[b] |-> chunk[b][h][1]]]

\* fprop_outputs[:, -1, :output_patch_len, 0]
new_ts(fprop_outputs, opl) ==
    LET chunk == last_patch_chunk(fprop_outputs, opl)
    IN  [b \in DOMAIN chunk |-> [h \in DOMAIN chunk[b] |-> chunk[b][h][0]]]

\* jnp.concatenate(full_outputs, axis=1), row b
RECURSIVE concat_chunks(_, _, _)
concat_chunks(chunks, b, k) ==
    IF k = 0 THEN Empty
    ELSE Concatenate(concat_chunks(chunks, b, k - 1), chunks[k - 1][b])

\* mutant: nothing is cut from the end
decode_return_untrimmed(fo, chunks, start, hl) ==
    [point |-> [b \in DOMAIN fo |-> PySlice(fo[b], start, ALen(fo[b]))],
     full  |-> [b \in DOMAIN fo |-> concat_chunks(chunks, b, ALen(chunks))]]

decode_return(fo, chunks, start, hl) ==
    [point |-> [b \in DOMAIN fo |-> PySlice(fo[b], start, start + hl)],
     full  |-> [b \in DOMAIN fo |->
                  PySlice(concat_chunks(chunks, b, ALen(chunks)), 0, hl)]]

\* mutant: only a padding that is too short is refused
padding_mismatch_short(pads, fo, hl) == ALen(pads[0]) < ALen(fo[0]) + hl

padding_mismatch(pads, fo, hl) == ALen(pads[0]) # ALen(fo[0]) + hl

\* mutant: the quotient rounded down
get_num_decode_patches_floor(hl, opl) == hl \div opl

get_num_decode_patches(hl, opl) == (hl + opl - 1) \div opl

DecodeStart ==
    /\ call = "decode" /\ pc = "start"
    /\ final_out' = inputs.input_ts
    /\ full_outputs' = Empty
    /\ IF padding_mismatch(paddings, inputs.input_ts, horizon_len)
       THEN /\ pc' = "error"
            /\ raised' = "ValueError"
            /\ UNCHANGED <<output_patch_len, num_decode_patches>>
       ELSE /\ output_patch_len' =
                   IF output_patch_len = 0 THEN self.horizon_len
                   ELSE output_patch_len
            /\ num_decode_patches' =
                   get_num_decode_patches(horizon_len, output_patch_len')
            /\ pc' = "loop"
            /\ UNCHANGED raised
    /\ UNCHANGED <<self, call, inputs, horizon_len, max_len, step, model_input,
                   fwd_calls, fprop, result>>

DecodeStep ==
    /\ call = "decode" /\ pc = "loop" /\ step < num_decode_patches
    /\ model_input' = decode_model_input(final_out, paddings, max_len)
    /\ fwd_calls' = fwd_calls + 1
    /\ fprop' = __call__(model_input')
    /\ IF ~ fprop'.ok
       THEN /\ pc' = "error"
            /\ raised' = "einshape"
            /\ UNCHANGED <<final_out, full_outputs, step>>
       ELSE /\ full_outputs' = Concatenate(full_outputs,
                   [k \in {0} |-> last_patch_chunk(fprop'.output_ts, output_patch_len)])
            /\ final_out' = [b \in DOMAIN final_out |->
                   Concatenate(final_out[b],
                               new_ts(fprop'.output_ts, output_patch_len)[b])]
            /\ step' = step + 1
            /\ UNCHANGED <<pc, raised>>
    /\ UNCHANGED <<self, call, inputs, horizon_len, output_patch_len, max_len,
                   num_decode_patches, result>>

DecodeReturn ==
    /\ call = "decode" /\ pc = "loop" /\ step = num_decode_patches
    /\ result' = decode_return(final_out, full_outputs, inp_time_len, horizon_len)
    /\ pc' = "done"
    /\ UNCHANGED <<self, call, inputs, horizon_len, output_patch_len, max_len,
                   raised, final_out, full_outputs, num_decode_patches, step,
                   model_input, fwd_calls, fprop>>

\* a direct forward call
Forward ==
    /\ call = "forward" /\ pc = "start"
    /\ model_input' = inputs
    /\ fwd_calls' = fwd_calls + 1
    /\ fprop' = __call__(inputs)
    /\ pc' = IF fprop'.ok THEN "done" ELSE "error"
    /\ raised' = IF fprop'.ok THEN "none" ELSE "einshape"
    /\ UNCHANGED <<self, call, inputs, horizon_len, output_patch_len, max_len,
                   final_out, full_outputs, num_decode_patches, step, result>>

\* ------------------------------------------------------------------ inputs
Rows == 0 .. (NumRows - 1)

\* series values 0.0 .. 4.0 that vary along the row; with vp = 2 row 0 holds
\* the sentinel at position 1
ValueAt(vp, b, t) ==
    IF vp = 2 /\ b = 0 /\ t = 1 THEN PadNum
    ELSE Num((((t + b) * 3) % 5) * SCALE)

\* decode padding masks over 0..C+H-1: 1 none padded, 2 the first position
\* padded, 3 the horizon part padded
PadAt(pp, t, C) ==
    IF pp = 2 THEN (IF t = 0 THEN 1 ELSE 0)
    ELSE IF pp = 3 THEN (IF t >= C THEN 1 ELSE 0)
    ELSE 0

\* the padding of one patch, by kind: 0 none padded, 1 its first position
\* padded, 2 all but its last position padded, 3 all padded
PatchMask(kind, p, P) ==
    IF kind = 1 THEN (IF p = 0 THEN 1 ELSE 0)
    ELSE IF kind = 2 THEN (IF p < P - 1 THEN 1 ELSE 0)
    ELSE IF kind = 3 THEN 1
    ELSE 0
\* the kinds that differ for a patch of P positions
MaskKinds(P) == IF P = 1 THEN {0, 3} ELSE IF P = 2 THEN {0, 1, 3} ELSE 0 .. 3

\* row 0 takes the kinds in order, the other rows in reverse order
forward_inputs(T, P, vp, m) ==
    [input_ts |-> [b \in Rows |-> [t \in 0 .. (T - 1) |-> ValueAt(vp, b, t)]],
     input_padding |-> [b \in Rows |-> [t \in 0 .. (T - 1) |->
         PatchMask(m[IF b = 0 THEN t \div P ELSE ALen(m) - 1 - t \div P], t % P, P)]]]

decode_inputs(C, padlen, pp) ==
    [input_ts |-> [b \in Rows |-> [t \in 0 .. (C - 1) |-> ValueAt(1, b, t)]],
     input_padding |-> [b \in Rows |-> [t \in 0 .. (padlen - 1) |-> PadAt(pp, t, C)]]]

InitCommon ==
    /\ pc = "start" /\ raised = "none"
    /\ final_out = Empty /\ full_outputs = Empty
    /\ num_decode_patches = 0 /\ step = 0
    /\ model_input = Empty /\ fwd_calls = 0
    /\ fprop = Empty /\ result = Empty

InitForward ==
    /\ call = "forward"
    /\ self \in [patch_len : 1 .. MaxPatchLen, horizon_len : {MaxHorizonLen},
                 do_eval : BOOLEAN]
    /\ \E T \in 1 .. (MaxPatches * self.patch_len), vp \in 1 .. 2 :
          \E m \in [0 .. ((T - 1) \div self.patch_len) -> MaskKinds(self.patch_len)] :
              /\ T % self.patch_len # 0 => \A n \in DOMAIN m : m[n] = 0
              /\ inputs = forward_inputs(T, self.patch_len, vp, m)
    /\ horizon_len = 0 /\ output_patch_len = 0 /\ max_len = 0

\* decode runs in evaluation mode; output_patch_len is None (0) or a positive
\* integer no larger than the native horizon_len
InitDecode ==
    /\ call = "decode"
    /\ self \in [patch_len : 1 .. MaxPatchLen, horizon_len : 1 .. MaxHorizonLen,
                 do_eval : {TRUE}]
    /\ horizon_len \in 1 .. MaxH
    /\ output_patch_len \in 0 .. self.horizon_len
    /\ max_len \in 1 .. MaxMaxLen
    /\ \E C \in 1 .. MaxC, d \in {-1, 0, 1}, pp \in 1 .. 3 :
          /\ d # 0 => (pp = 1 /\ max_len = MaxMaxLen)
          /\ inputs = decode_inputs(C, C + horizon_len + d, pp)

Init == InitCommon /\ (InitForward \/ InitDecode)

Next == DecodeStart \/ DecodeStep \/ DecodeReturn \/ Forward

Spec == Init /\ [][Next]_vars

\* ================================================================== claims
\* what the claims measure, written without the model's operators
CtxLen == Cardinality(DOMAIN inputs.input_ts[0])
PadLen == Cardinality(DOMAIN inputs.input_padding[0])
Size(a) == Cardinality(DOMAIN a)
CeilDiv(a, b) == CHOOSE k \in 0 .. a : k * b >= a /\ (k - 1) * b < a
PastCheck == call = "decode" /\ (pc \in {"loop", "done"} \/ raised = "einshape")

\* C1: a decode call whose padding length differs from the input length plus
\* horizon_len raises, and has issued no forward call when it does.
C1_MismatchRaisesBeforeForward ==
    (call = "decode" /\ pc # "start" /\ PadLen # CtxLen + horizon_len)
        => (pc = "error" /\ raised = "ValueError" /\ fwd_calls = 0)

C1_Witness ==
    /\ call = "decode" /\ pc = "error" /\ raised = "ValueError"
    /\ PadLen = CtxLen + horizon_len + 1

\* C2 as stated: every decode call that passes the padding-length check ends
\* having made exactly ceil(horizon_len / output_patch_len) forward calls.
C2_Original ==
    (call = "decode" /\ pc \in {"done", "error"} /\ PadLen = CtxLen + horizon_len)
        => fwd_calls = CeilDiv(horizon_len, output_patch_len)

\* C2 amended: a decode call that passes the padding-length check makes one
\* forward call per iteration; when it returns it has made exactly
\* ceil(horizon_len / output_patch_len) of them; when it fails after the
\* check, the window of its latest forward call is not a multiple of
\* patch_len, and it has made at most that many.
C2_ForwardCallsPerDecode ==
    /\ (call = "decode" /\ pc = "loop")
           => (fwd_calls = step /\ step <= CeilDiv(horizon_len, output_patch_len))
    /\ (call = "decode" /\ pc = "done")
           => (fwd_calls = CeilDiv(horizon_len, output_patch_len) /\ fwd_calls = step)
    /\ (call = "decode" /\ pc = "error" /\ PadLen = CtxLen + horizon_len)
           => /\ Size(model_input.input_ts[0]) % self.patch_len # 0
              /\ fwd_calls = step + 1
              /\ fwd_calls <= CeilDiv(horizon_len, output_patch_len)

C2_Witness ==
    /\ call = "decode" /\ pc = "done"
    /\ horizon_len = 5 /\ output_patch_len = 2 /\ fwd_calls = 3

\* C3: on return the point forecast has horizon_len columns and the full
\* forecast horizon_len rows of 1 + #quantiles channels; they are the first
\* horizon_len generated positions, the surplus being cut from the end.
C3_ReturnedLengths ==
    (call = "decode" /\ pc = "done") =>
        \A b \in DOMAIN result.point :
            /\ Size(result.point[b]) = horizon_len
            /\ Size(result.full[b]) = horizon_len
            /\ \A i \in 0 .. (horizon_len - 1) :
                 /\ Size(result.full[b][i]) = NumQuantiles + 1
                 /\ result.point[b][i] = final_out[b][CtxLen + i]
                 /\ result.full[b][i] =
                       full_outputs[i \div output_patch_len][b][i % output_patch_len]

C3_Witness ==
    /\ call = "decode" /\ pc = "done"
    /\ step * output_patch_len > horizon_len
    /\ Size(final_out[0]) > CtxLen + horizon_len
    /\ Size(result.point[0]) = horizon_len

\* C4: the growing series starts at the context length, each iteration makes
\* it longer by exactly output_patch_len, so after k iterations its length is
\* C + k * output_patch_len; it never shrinks and no earlier position changes.
C4_LengthAfterSteps ==
    PastCheck => \A b \in DOMAIN final_out :
        Size(final_out[b]) = CtxLen + step * output_patch_len
C4_StepGrows ==
    (PastCheck /\ step' = step + 1) => \A b \in DOMAIN final_out :
        /\ Size(final_out'[b]) = Size(final_out[b]) + output_patch_len
        /\ \A i \in DOMAIN final_out[b] : final_out'[b][i] = final_out[b][i]
C4_NeverRewritten ==
    PastCheck => \A b \in DOMAIN final_out :
        /\ Size(final_out'[b]) >= Size(final_out[b])
        /\ \A i \in DOMAIN final_out[b] : final_out'[b][i] = final_out[b][i]
C4_MonotonicGrowth ==
    /\ [](call = "decode" /\ pc = "start" => final_out = Empty)
    /\ []C4_LengthAfterSteps
    /\ [][C4_StepGrows /\ C4_NeverRewritten]_vars

C4_Witness ==
    /\ call = "decode" /\ step = 3 /\ output_patch_len = 2
    /\ Size(final_out[0]) = CtxLen + 6

\* ---- the latest forward call, as the claims read it
FwdLen == Size(model_input.input_ts[0])
Pads == fprop.pre.patched_pads
Patches == fprop.pre.raw_patches
NumPatches(b) == Size(Pads[b])
NonPadded(b, n) == {p \in DOMAIN Pads[b][n] : Pads[b][n][p] = 0}
Qualifying(b) == {n \in DOMAIN Pads[b] : Cardinality(NonPadded(b, n)) >= 3}
ExpectedPatch(b) ==
    IF Qualifying(b) = {} THEN NumPatches(b) - 1
    ELSE CHOOSE n \in Qualifying(b) : \A m \in Qualifying(b) : n <= m
RECURSIVE SumOver(_, _, _)
SumOver(S, a, sq) ==
    IF S = {} THEN 0
    ELSE LET p == CHOOSE x \in S : TRUE
             v == a[p].fin
         IN  (IF sq THEN (v * v) \div SCALE ELSE v) + SumOver(S \ {p}, a, sq)

\* C5: a forward call on a series whose length is not a multiple of patch_len
\* fails and yields no forecast, directly and inside decode, where the series
\* is the trailing min(current length, max_len) positions and the failed
\* iteration extends nothing; a call that goes through keeps every position.
C5_MisalignedForwardFails ==
    fwd_calls > 0 =>
        /\ FwdLen % self.patch_len # 0
               => (pc = "error" /\ raised = "einshape" /\ fprop = [ok |-> FALSE])
        /\ FwdLen % self.patch_len = 0
               => (fprop.ok /\ \A b \in DOMAIN Patches :
                      Size(Patches[b]) * self.patch_len = FwdLen)
        /\ (call = "decode" /\ raised = "einshape")
               => /\ FwdLen = Min2(Size(final_out[0]), max_len)
                  /\ FwdLen % self.patch_len # 0
                  /\ Size(full_outputs) = step
                  /\ Size(final_out[0]) = CtxLen + step * output_patch_len
        /\ (call = "forward" /\ FwdLen % self.patch_len # 0) => pc = "error"

C5_Witness ==
    /\ call = "decode" /\ raised = "einshape" /\ step >= 1
    /\ FwdLen % self.patch_len # 0 /\ FwdLen = max_len

C7_DegenerateStatistics ==
    (fwd_calls > 0 /\ fprop.ok) => \A b \in DOMAIN Pads :
        LET sel == fprop.pre.masked.patch_indices[b]
            std == fprop.pre.masked.masked_std[b]
        IN  /\ fprop.pre.masked.num_valid_elements[b] >= 1
            /\ NonPadded(b, sel) = {} =>
                  /\ fprop.pre.masked.num_valid_elements[b] = 1
                  /\ fprop.pre.masked.masked_mean[b] = 0
                  /\ std = 0
            /\ ~ LessThanTolerance(fprop.stats.sigma[b])
            /\ fprop.stats.sigma[b] # 0
            /\ fprop.stats.sigma[b] = (IF LessThanTolerance(std) THEN SCALE ELSE std)

C7_Witness ==
    /\ fwd_calls > 0 /\ fprop.ok
    /\ \E b \in DOMAIN Pads :
          /\ NonPadded(b, fprop.pre.masked.patch_indices[b]) = {}
          /\ fprop.pre.masked.masked_std[b] = 0
          /\ fprop.stats.sigma[b] = SCALE

\* ---- the positional embedding the latest forward call added
AlignedEmb(b) == [n \in DOMAIN Pads[b] |-> fprop.pre.model_input[b][n].pos]
UnshiftedEmb(b) == position_emb_layer(NumPatches(b))[0]
ValidPatches(b) == {n \in DOMAIN Pads[b] : NonPadded(b, n) # {}}
FirstValidPatch(b) == CHOOSE n \in ValidPatches(b) : \A m \in ValidPatches(b) : n <= m
IsRotation(a, u) ==
    \E k \in DOMAIN u : \A n \in DOMAIN u : a[n] = u[(n - k) % Size(u)]

\* C8: in evaluation mode, for every row whose first patch with a non-padded
\* position is s, the aligned positional embedding at s is the unshifted one
\* at 0, with s = 0 the two are equal everywhere, and the aligned embedding
\* is always a rotation of the unshifted one; in training mode the embedding
\* is added unshifted.
C8_PositionAlignment ==
    (fwd_calls > 0 /\ fprop.ok) => \A b \in DOMAIN Pads :
        IF self.do_eval
        THEN /\ ValidPatches(b) # {} =>
                   /\ AlignedEmb(b)[FirstValidPatch(b)] = UnshiftedEmb(b)[0]
                   /\ FirstValidPatch(b) = 0 => AlignedEmb(b) = UnshiftedEmb(b)
             /\ IsRotation(AlignedEmb(b), UnshiftedEmb(b))
             /\ {AlignedEmb(b)[n] : n \in DOMAIN Pads[b]}
                    = {UnshiftedEmb(b)[n] : n \in DOMAIN Pads[b]}
        ELSE AlignedEmb(b) = UnshiftedEmb(b)

C8_Witness ==
    /\ fwd_calls > 0 /\ fprop.ok /\ self.do_eval
    /\ \E b \in DOMAIN Pads :
          /\ NumPatches(b) = 3
          /\ fprop.pre.patched_padding[b] = [n \in 0 .. 2 |-> IF n < 1 THEN 1 ELSE 0]
          /\ AlignedEmb(b)[1] = 0
          /\ AlignedEmb(b) # UnshiftedEmb(b)
    /\ \E b \in DOMAIN Pads : FirstValidPatch(b) = 0 /\ ValidPatches(b) # {}

\* ---- reverse(forward(x)) for the patches of the latest forward call
Transformed == fprop.pre.transformed
RoundTrip ==
    _reverse_transform(
        [b \in DOMAIN Transformed |-> [n \in DOMAIN Transformed[b] |->
            [p \in DOMAIN Transformed[b][n] |-> [q \in {0} |-> Transformed[b][n][p]]]]],
        fprop.stats)
\* equal up to the rounding of one division and one multiplication; next to
\* the sentinel a finite part is below the resolution of the float
RoundingTolerance(b) == fprop.stats.sigma[b] \div SCALE + 1
Close(a, x, tol) == a.pad = x.pad /\ (x.pad = 0 => Abs(a.fin - x.fin) <= tol)

\* C9 as stated: reverse(forward(x)) is x at every position
C9_Original ==
    (fwd_calls > 0 /\ fprop.ok) =>
        \A b \in DOMAIN Patches : \A n \in DOMAIN Patches[b] :
            \A p \in DOMAIN Patches[b][n] :
                ~ LessThanTolerance(fprop.stats.sigma[b]) =>
                    Close(RoundTrip[b][n][p][0], Patches[b][n][p], RoundingTolerance(b))

\* C9: with the statistics the forward transform returned (its std is never
\* below the tolerance) reverse(forward(x)) is x up to rounding at every
\* position that does not hold the pad sentinel; at a position that holds it
\* forward keeps the sentinel and reverse returns sentinel * std + mean.
C9_RoundTripOffSentinel ==
    (fwd_calls > 0 /\ fprop.ok) =>
        \A b \in DOMAIN Patches : \A n \in DOMAIN Patches[b] :
            \A p \in DOMAIN Patches[b][n] :
                /\ ~ LessThanTolerance(fprop.stats.sigma[b])
                /\ IF IsPadVal(Patches[b][n][p])
                   THEN /\ Transformed[b][n][p] = PadNum
                        /\ RoundTrip[b][n][p][0].pad = fprop.stats.sigma[b]
                        /\ RoundTrip[b][n][p][0].fin = fprop.stats.mu[b]
                   ELSE Close(RoundTrip[b][n][p][0], Patches[b][n][p],
                              RoundingTolerance(b))

C9_Witness ==
    /\ fwd_calls > 0 /\ fprop.ok
    /\ \E b \in DOMAIN Patches :
          /\ fprop.stats.sigma[b] > SCALE
          /\ fprop.stats.mu[b] > RoundingTolerance(b)
          /\ \E n \in DOMAIN Patches[b] : \E p \in DOMAIN Patches[b][n] :
                 IsPadVal(Patches[b][n][p])
          /\ \E n \in DOMAIN Patches[b] : \E p \in DOMAIN Patches[b][n] :
                 /\ ~ IsPadVal(Patches[b][n][p])
                 /\ Patches[b][n][p].fin # fprop.stats.mu[b]
                 /\ Transformed[b][n][p].fin # 0

\* ---- the windows of one decode iteration
WindowLen == Min2(Size(final_out[0]), max_len)
WindowStart == Size(final_out[0]) - WindowLen
C10_Windows ==
    (pc = "loop" /\ fwd_calls' = fwd_calls + 1) =>
        \A b \in Rows :
            /\ Size(model_input'.input_ts[b]) = WindowLen
            /\ Size(model_input'.input_padding[b]) = WindowLen
            /\ \A i \in 0 .. (WindowLen - 1) :
                  /\ model_input'.input_ts[b][i] = final_out[b][WindowStart + i]
                  /\ model_input'.input_padding[b][i]
                         = inputs.input_padding[b][WindowStart + i]
C10_SameLength ==
    (call = "decode" /\ fwd_calls > 0) =>
        \A b \in Rows :
            Size(model_input.input_ts[b]) = Size(model_input.input_padding[b])

\* C10: every decode iteration passes to the forward call a series window and
\* a padding window of the same length min(L, max_len), holding positions
\* L - min(L, max_len) .. L - 1 of the growing series and of the supplied
\* padding, L being the length of the growing series; no padding entry at a
\* position >= L is passed.
C10_DecodeWindows == [][C10_Windows]_vars /\ []C10_SameLength

C10_Witness ==
    /\ call = "decode" /\ pc = "done" /\ fwd_calls >= 2
    /\ Size(model_input.input_ts[0]) = max_len
    /\ CtxLen < max_len
    /\ inputs.input_padding[0][CtxLen] = 1
    /\ model_input.input_padding[0][max_len - 1] = 1
    /\ model_input.input_padding[0][0] = 0

\* ---- the forecast grid of one decode iteration and what is kept of it
LastPatch(grid, b) == grid[b][Size(grid[b]) - 1]
\* a completed iteration appends, at positions L .. L + output_patch_len - 1,
\* channel 0 of the last patch of its grid, and retains all channels of it
C11_StepFeedsBack ==
    (pc = "loop" /\ step' = step + 1) =>
        \A b \in Rows : \A h \in 0 .. (output_patch_len - 1) :
            /\ Size(final_out[b]) = CtxLen + step * output_patch_len
            /\ final_out'[b][Size(final_out[b]) + h]
                   = LastPatch(fprop'.output_ts, b)[h][0]
            /\ full_outputs'[step][b][h] = LastPatch(fprop'.output_ts, b)[h]
            /\ \A k \in 0 .. (step - 1) : full_outputs'[k] = full_outputs[k]
\* what was appended and what was retained agree, iteration by iteration
C11_KeptConsistent ==
    call = "decode" =>
        \A k \in 0 .. (Size(full_outputs) - 1) : \A b \in Rows :
            \A h \in 0 .. (output_patch_len - 1) :
                final_out[b][CtxLen + k * output_patch_len + h]
                    = full_outputs[k][b][h][0]
C11_Returned ==
    (call = "decode" /\ pc = "done") =>
        \A b \in Rows : \A i \in 0 .. (horizon_len - 1) :
            /\ result.point[b][i] = result.full[b][i][0]
            /\ result.point[b][i] = final_out[b][CtxLen + i]
            /\ result.point[b][i] =
                   full_outputs[i \div output_patch_len][b][i % output_patch_len][0]

\* C11: for every row and every i in 0 .. H-1 the returned point forecast at
\* column i is channel 0 of the returned full forecast at row i, and both are
\* the value appended to the growing series at position C + i, which is
\* channel 0 of the last patch of the forecast grid of iteration
\* i \div output_patch_len at horizon offset i % output_patch_len.
C11_ForecastsConsistent ==
    [][C11_StepFeedsBack]_vars /\ []C11_KeptConsistent /\ []C11_Returned

C11_Witness ==
    /\ call = "decode" /\ pc = "done"
    /\ output_patch_len = 2 /\ horizon_len = 3 /\ step = 2
    /\ Size(fprop.output_ts[0]) >= 2
    /\ result.point[0][2] = full_outputs[1][0][0][0]
    /\ result.point[0][2] = LastPatch(fprop.output_ts, 0)[0][0]
    /\ result.full[0][2][1] # result.point[0][2]
    /\ fprop.output_ts[0][0][0][0] # result.point[0][2]

====
